---- MODULE Spec2Model ----
(***************************************************************************)
(* Model of pallets/dactr/src/extensions/check_app_id.rs: the CheckAppId   *)
(* signed extension.  do_validate runs the AppId check over the call tree  *)
(* (ensure_valid_app_id) and then the block-length accountant              *)
(* (next_all_extrinsics_len), and commits the new AllExtrinsicsLen.        *)
(***************************************************************************)
EXTENDS Integers, Sequences, FiniteSets, TLC

VARIABLES
    AllExtrinsicsLen,      \* storage: None, or Some(map AppId -> padded length)
    rows, cols,            \* storage: DynamicBlockLength (block dimensions)
    next_application_id,   \* storage read by Pallet::peek_next_application_id
    call, app_id, len,     \* the transaction handed to the last entry point
    entry,                 \* the last entry point: "validate" / "pre_dispatch"
    outcome,               \* what the last do_validate returned
    check,                 \* the work-list traversal of the last do_validate
    before,                \* AllExtrinsicsLen when the last do_validate began
    admitted,              \* history: per AppId, the lengths of accepted calls
    admission,             \* Some(storage before `validate`) while the
                           \* transaction last accepted by `validate` is the
                           \* one being dispatched, else None
    accounted,             \* whether the last do_validate reached
                           \* next_all_extrinsics_len
    loop,                  \* ensure_valid_app_id run one pop at a time: its
                           \* position and locals
    inflight,              \* per invocation of do_validate run as two storage
                           \* operations: its position and what it holds
    raced                  \* whether an invocation read AllExtrinsicsLen
                           \* between another's read and put

vars == <<AllExtrinsicsLen, rows, cols, next_application_id, call, app_id, len,
          entry, outcome, check, before, admitted, admission, accounted, loop,
          inflight, raced>>

----------------------------------------------------------------------------
(* Bounds of the model.                                                    *)

MaxAppId == 1
MaxNextAppId == 2
MaxLen == 2
MaxNodes == 4

----------------------------------------------------------------------------
(* Unsigned integers.  A number n is the pair <<hi, lo>> with              *)
(* n = hi * 65536 + lo and lo < 65536, so that the full u32 range (and a   *)
(* usize beyond it) is representable; a u32 has hi < 65536.                *)

Base == 2 ^ 16

None == <<>>
Some(v) == <<v>>

Num(n) == <<n \div Base, n % Base>>
Zero == <<0, 0>>
U32_MAX == <<Base - 1, Base - 1>>
U32_LIMIT == <<Base, 0>>

Plus(a, b) ==
    LET s == a[2] + b[2]
    IN  <<a[1] + b[1] + (s \div Base), s % Base>>

Le(a, b) == a[1] < b[1] \/ (a[1] = b[1] /\ a[2] <= b[2])

Lt(a, b) == Le(a, b) /\ a # b

\* u32::try_from(len).ok()
u32_try_from(n) == IF n[1] < Base THEN Some(n) ELSE None

\* u32::checked_add
checked_add(a, b) == u32_try_from(Plus(a, b))

\* u32::checked_mul
checked_mul(a, b) ==
    IF a[1] > 0 /\ b[1] > 0 THEN None
    ELSE LET Byte == 2 ^ 8
             x  == IF a[1] > 0 THEN a ELSE b
             y  == IF a[1] > 0 THEN b ELSE a
             p  == x[2] \div Byte
             q  == x[2] % Byte
             r  == y[2] \div Byte
             s  == y[2] % Byte
             mid == p * s + q * r
             low == q * s + (mid % Byte) * Byte
             carry == p * r + (mid \div Byte) + (low \div Base)
         IN  IF x[1] > 0 /\ y[2] > (Base - 1) \div x[1] THEN None
             ELSE u32_try_from(<<x[1] * y[2] + carry, low % Base>>)

----------------------------------------------------------------------------
(* Calls.  A RuntimeCall is submit_data, one of the three utility batches  *)
(* with its contained calls, or any other call (System::remark).           *)

BatchKinds == {"batch", "batch_all", "force_batch"}
LeafKinds == {"submit_data", "remark"}

Leaf(k) == [kind |-> k, calls |-> <<>>]
Batch(k, cs) == [kind |-> k, calls |-> cs]

submit_data_call == Leaf("submit_data")
remark_call == Leaf("remark")

IsBatch(c) == c.kind \in BatchKinds

RECURSIVE TreesOf(_), ForestsOf(_), Size(_), SizeAll(_)
Size(c) == 1 + SizeAll(c.calls)
SizeAll(cs) == IF cs = <<>> THEN 0 ELSE Size(Head(cs)) + SizeAll(Tail(cs))

\* every call with at most n nodes
TreesOf(n) ==
    IF n = 0 THEN {}
    ELSE {Leaf(k) : k \in LeafKinds}
         \cup {Batch(k, cs) : k \in BatchKinds, cs \in ForestsOf(n - 1)}

\* every sequence of calls with at most n nodes in all
ForestsOf(n) ==
    IF n = 0 THEN {<<>>}
    ELSE {<<>>} \cup UNION {{<<t>> \o f : f \in ForestsOf(n - Size(t))} : t \in TreesOf(n)}

Calls == TreesOf(MaxNodes)

\* the calls offered while a block is built: one of each shape the AppId
\* check tells apart, over the three batch variants
BlockCalls ==
    {submit_data_call, remark_call,
     Batch("batch", <<>>),
     Batch("batch_all", <<submit_data_call, submit_data_call>>),
     Batch("force_batch", <<Batch("batch", <<submit_data_call>>)>>)}

AppIds == 0 .. MaxAppId

Lens == {Num(n) : n \in 0 .. MaxLen} \cup {U32_LIMIT}

\* DynamicBlockLength <<rows, cols>>: two small grids, and one whose
\* rows * cols overflows u32
BlockLengths ==
    {<<Num(1), Num(1)>>, <<Num(2), Num(2)>>, <<Num(Base), Num(Base)>>}

----------------------------------------------------------------------------
(* The AppId check: CheckAppId::ensure_valid_app_id.                       *)

MAX_ITERATIONS == 2

\* Pallet::peek_next_application_id
peek_next_application_id == next_application_id

\* ensure!(self.app_id() < *next_app_id, InvalidAppId)
is_registered(a, next) == a < next

\* (mutant) the bound compared with <= : a second batch is unwrapped
may_unwrap_inclusive(iterations) == iterations <= MAX_ITERATIONS

\* ensure!(iterations < MAX_ITERATIONS, MaxRecursionExceeded)
may_unwrap(iterations) == iterations < MAX_ITERATIONS

\* (mutant) the force_batch arm left out of the match
is_utility_batch_no_force(c) == c.kind \in {"batch", "batch_all"}

\* the match arms batch | batch_all | force_batch
is_utility_batch(c) == c.kind \in {"batch", "batch_all", "force_batch"}

\* (mutant) every call that is not a batch taken for submit_data
is_submit_data_any_leaf(c) == c.kind \notin BatchKinds

\* if let Some(DACall::submit_data { .. }) = call.is_sub_type()
is_submit_data(c) == c.kind = "submit_data"

\* (mutant) the counter fetched at every submit_data
needs_fetch_always(maybe) == TRUE

\* get_or_insert_with calls its closure only on a None
needs_fetch(maybe) == maybe = None

\* maybe_next_app_id.get_or_insert_with(<Pallet<T>>::peek_next_application_id)
get_or_insert_with(maybe) ==
    IF needs_fetch(maybe) THEN Some(peek_next_application_id) ELSE maybe

Verdict(res, maybe, iterations, pops) ==
    [res |-> res, maybe_next_app_id |-> maybe, iterations |-> iterations,
     pops |-> pops]

\* (mutant) Ok returned as soon as one submit_data has passed
RECURSIVE while_pop_return_early(_, _, _, _, _)
while_pop_return_early(a, stack, maybe, iterations, pops) ==
    IF stack = <<>> THEN Verdict("Ok", maybe, iterations, pops)
    ELSE LET c    == stack[Len(stack)]
             rest == SubSeq(stack, 1, Len(stack) - 1)
         IN  IF is_submit_data(c)
             THEN LET next == get_or_insert_with(maybe)
                  IN  IF is_registered(a, next[1])
                      THEN Verdict("Ok", next, iterations, pops + 1)
                      ELSE Verdict("InvalidAppId", next, iterations, pops + 1)
             ELSE IF is_utility_batch(c)
             THEN IF may_unwrap(iterations + 1)
                  THEN while_pop_return_early(a, rest \o c.calls, maybe,
                                              iterations + 1, pops + 1)
                  ELSE Verdict("MaxRecursionExceeded", maybe, iterations + 1,
                               pops + 1)
             ELSE Verdict("ForbiddenAppId", maybe, iterations, pops + 1)

\* while let Some(call) = stack.pop() { ... }: the stack's top is its last
\* element; the result records the loop's locals when it ends.
RECURSIVE while_pop(_, _, _, _, _)
while_pop(a, stack, maybe, iterations, pops) ==
    IF stack = <<>> THEN Verdict("Ok", maybe, iterations, pops)
    ELSE LET c    == stack[Len(stack)]
             rest == SubSeq(stack, 1, Len(stack) - 1)
         IN  IF is_submit_data(c)
             THEN LET next == get_or_insert_with(maybe)
                  IN  IF is_registered(a, next[1])
                      THEN while_pop(a, rest, next, iterations, pops + 1)
                      ELSE Verdict("InvalidAppId", next, iterations, pops + 1)
             ELSE IF is_utility_batch(c)
             THEN IF may_unwrap(iterations + 1)
                  THEN while_pop(a, rest \o c.calls, maybe, iterations + 1,
                                 pops + 1)
                  ELSE Verdict("MaxRecursionExceeded", maybe, iterations + 1,
                               pops + 1)
             ELSE Verdict("ForbiddenAppId", maybe, iterations, pops + 1)

\* (mutant) no early return for AppId 0
ensure_valid_app_id_no_bypass(a, c) == while_pop(a, <<c>>, None, 0, 0)

\* (mutant) the counter fetched and compared before the loop
ensure_valid_app_id_eager(a, c) ==
    IF a = 0 THEN Verdict("Ok", None, 0, 0)
    ELSE IF ~is_registered(a, peek_next_application_id)
         THEN Verdict("InvalidAppId", Some(peek_next_application_id), 0, 0)
         ELSE while_pop(a, <<c>>, Some(peek_next_application_id), 0, 0)

ensure_valid_app_id(a, c) ==
    IF a = 0 THEN Verdict("Ok", None, 0, 0)
    ELSE while_pop(a, <<c>>, None, 0, 0)

----------------------------------------------------------------------------
(* The accountant: CheckAppId::next_all_extrinsics_len.                    *)

\* ExtrinsicLen::default()
default_len == [a \in AppIds |-> Zero]

\* AllExtrinsicsLen::get().unwrap_or_default()
unwrap_or_default(stored) == IF stored = None THEN default_len ELSE stored[1]

\* ExtrinsicLen::add_padded: the length is added under its AppId
add_padded(m, a, l) ==
    LET sum == checked_add(m[a], l)
    IN  IF sum = None THEN None ELSE Some([m EXCEPT ![a] = sum[1]])

\* ExtrinsicLen::total_num_scalars: the checked sum over all AppIds
RECURSIVE sum_scalars(_, _)
sum_scalars(m, ids) ==
    IF ids = {} THEN Some(Zero)
    ELSE LET a    == CHOOSE x \in ids : TRUE
             rest == sum_scalars(m, ids \ {a})
         IN  IF rest = None THEN None ELSE checked_add(m[a], rest[1])

total_num_scalars(m) == sum_scalars(m, DOMAIN m)

\* (mutant) the comparison written the other way round
fits_block_reversed(total_scalars, max_scalars) == Le(max_scalars, total_scalars)

\* (mutant) a total equal to the capacity refused
fits_block_strict(total_scalars, max_scalars) == Lt(total_scalars, max_scalars)

\* if total_scalars <= max_scalars
fits_block(total_scalars, max_scalars) == Le(total_scalars, max_scalars)

\* (mutant) the new length added to an empty ExtrinsicLen instead of the
\* stored one
next_all_extrinsics_len_from_default(a, l) ==
    LET l32 == u32_try_from(l)
    IN  IF l32 = None THEN None
        ELSE LET max_scalars == checked_mul(rows, cols)
             IN  IF max_scalars = None THEN None
                 ELSE LET added == add_padded(default_len, a, l32[1])
                      IN  IF added = None THEN None
                          ELSE LET total_scalars == total_num_scalars(added[1])
                               IN  IF total_scalars = None THEN None
                                   ELSE IF fits_block(total_scalars[1],
                                                      max_scalars[1])
                                        THEN added
                                        ELSE None

next_all_extrinsics_len(a, l) ==
    LET l32 == u32_try_from(l)
    IN  IF l32 = None THEN None
        ELSE LET max_scalars == checked_mul(rows, cols)
             IN  IF max_scalars = None THEN None
                 ELSE LET added == add_padded(unwrap_or_default(AllExtrinsicsLen),
                                              a, l32[1])
                      IN  IF added = None THEN None
                          ELSE LET total_scalars == total_num_scalars(added[1])
                               IN  IF total_scalars = None THEN None
                                   ELSE IF fits_block(total_scalars[1],
                                                      max_scalars[1])
                                        THEN added
                                        ELSE None

----------------------------------------------------------------------------
(* CheckAppId::do_validate: the check, then the accountant, then the put.  *)
(* `put` is the value written to AllExtrinsicsLen, None when none is.      *)

\* (mutant) the accountant run and its result put before the AppId check
do_validate_put_first(a, c, l) ==
    LET all_extrinsics_len == next_all_extrinsics_len(a, l)
        chk == ensure_valid_app_id(a, c)
    IN  IF chk.res # "Ok"
        THEN [res |-> chk.res, check |-> chk, put |-> all_extrinsics_len,
              accounted |-> TRUE]
        ELSE IF all_extrinsics_len = None
             THEN [res |-> "MaxPaddedLenExceeded", check |-> chk, put |-> None,
                   accounted |-> TRUE]
             ELSE [res |-> "Ok", check |-> chk, put |-> all_extrinsics_len,
                   accounted |-> TRUE]

do_validate_accountant_first(a, c, l) ==
    LET all_extrinsics_len == next_all_extrinsics_len(a, l)
        chk == ensure_valid_app_id(a, c)
    IN  IF all_extrinsics_len = None
        THEN [res |-> "MaxPaddedLenExceeded", check |-> chk, put |-> None,
              accounted |-> TRUE]
        ELSE IF chk.res # "Ok"
             THEN [res |-> chk.res, check |-> chk, put |-> None,
                   accounted |-> TRUE]
             ELSE [res |-> "Ok", check |-> chk, put |-> all_extrinsics_len,
                   accounted |-> TRUE]

do_validate(a, c, l) ==
    LET chk == ensure_valid_app_id(a, c)
    IN  IF chk.res # "Ok"
        THEN [res |-> chk.res, check |-> chk, put |-> None,
              accounted |-> FALSE]
        ELSE LET all_extrinsics_len == next_all_extrinsics_len(a, l)
             IN  IF all_extrinsics_len = None
                 THEN [res |-> "MaxPaddedLenExceeded", check |-> chk,
                       put |-> None, accounted |-> TRUE]
                 ELSE [res |-> "Ok", check |-> chk, put |-> all_extrinsics_len,
                       accounted |-> TRUE]

\* one call of do_validate, and what the history records of it
Enter(c, a, l) ==
    LET r == do_validate(a, c, l)
    IN  /\ AllExtrinsicsLen' = IF r.put = None THEN AllExtrinsicsLen ELSE r.put
        /\ call' = c
        /\ app_id' = a
        /\ len' = l
        /\ outcome' = r.res
        /\ check' = r.check
        /\ accounted' = r.accounted
        /\ before' = AllExtrinsicsLen
        /\ admitted' = IF r.res = "Ok"
                       THEN [admitted EXCEPT ![a] = Plus(@, l)]
                       ELSE admitted
        /\ UNCHANGED <<rows, cols, next_application_id, loop, inflight, raced>>

\* SignedExtension::validate (admission to the pool)
validate ==
    \E c \in BlockCalls, a \in AppIds, l \in Lens :
        /\ entry' = "validate"
        /\ Enter(c, a, l)
        /\ admission' = IF outcome' = "Ok" THEN Some(AllExtrinsicsLen) ELSE None

\* SignedExtension::pre_dispatch (inclusion in the block)
pre_dispatch ==
    \E c \in BlockCalls, a \in AppIds, l \in Lens :
        /\ entry' = "pre_dispatch"
        /\ Enter(c, a, l)
        /\ admission' = IF entry = "validate" /\ outcome = "Ok"
                           /\ <<call, app_id, len>> = <<c, a, l>>
                        THEN admission ELSE None

NoCheck == Verdict("none", None, 0, 0)

\* no loop is being stepped, no invocation is in flight
NoLoop ==
    [pc |-> "none", stack |-> <<>>, maybe_next_app_id |-> None,
     iterations |-> 0, pops |-> 0, res |-> "none", fetches |-> 0,
     leaves |-> 0, batches |-> 0, unwrapped |-> 0, pushed_at |-> {}]
NoneInFlight == <<>>

Init ==
    /\ AllExtrinsicsLen = None
    /\ \E d \in BlockLengths : rows = d[1] /\ cols = d[2]
    /\ next_application_id \in 1 .. MaxNextAppId
    /\ call = remark_call
    /\ app_id = 0
    /\ len = Zero
    /\ entry = "none"
    /\ outcome = "none"
    /\ check = NoCheck
    /\ before = None
    /\ admitted = [a \in AppIds |-> Zero]
    /\ admission = None
    /\ accounted = FALSE
    /\ loop = NoLoop
    /\ inflight = NoneInFlight
    /\ raced = FALSE

Next == validate \/ pre_dispatch

Spec == Init /\ [][Next]_vars

----------------------------------------------------------------------------
(* One do_validate on an arbitrary transaction at the start of a block:    *)
(* the inputs are drawn by InitTx and do_validate is applied to them.      *)

InitTx ==
    /\ AllExtrinsicsLen = None
    /\ \E d \in BlockLengths : rows = d[1] /\ cols = d[2]
    /\ next_application_id \in 1 .. MaxNextAppId
    /\ call \in Calls
    /\ app_id \in AppIds
    /\ len \in Lens
    /\ entry = "none"
    /\ outcome = "none"
    /\ check = NoCheck
    /\ before = None
    /\ admitted = [a \in AppIds |-> Zero]
    /\ admission = None
    /\ accounted = FALSE
    /\ loop = NoLoop
    /\ inflight = NoneInFlight
    /\ raced = FALSE

validate_drawn ==
    /\ outcome = "none"
    /\ entry' = "validate"
    /\ Enter(call, app_id, len)
    /\ admission' = IF outcome' = "Ok" THEN Some(AllExtrinsicsLen) ELSE None

NextTx == validate_drawn

SpecTx == InitTx /\ [][NextTx]_vars

----------------------------------------------------------------------------
(* Vocabulary of the properties.                                           *)

Rejections ==
    {"InvalidAppId", "ForbiddenAppId", "MaxRecursionExceeded",
     "MaxPaddedLenExceeded"}

Ran == outcome # "none"

RECURSIVE MaxOf(_), Depth(_), AllLeaves(_, _), SomeLeaf(_, _)
MaxOf(S) == IF S = {} THEN 0 ELSE CHOOSE x \in S : \A y \in S : y <= x

\* composite nesting: 0 for a leaf, 1 for a batch of leaves (or an empty one)
Depth(c) ==
    IF IsBatch(c)
    THEN 1 + MaxOf({Depth(c.calls[i]) : i \in 1 .. Len(c.calls)})
    ELSE 0

\* every non-composite call reachable from c is of kind k
AllLeaves(c, k) ==
    IF IsBatch(c)
    THEN \A i \in 1 .. Len(c.calls) : AllLeaves(c.calls[i], k)
    ELSE c.kind = k

\* some non-composite call reachable from c is of kind k
SomeLeaf(c, k) ==
    IF IsBatch(c)
    THEN \E i \in 1 .. Len(c.calls) : SomeLeaf(c.calls[i], k)
    ELSE c.kind = k

\* the exact sum of a map's lengths
RECURSIVE SumOver(_, _)
SumOver(m, ids) ==
    IF ids = {} THEN Zero
    ELSE LET a == CHOOSE x \in ids : TRUE
         IN  Plus(m[a], SumOver(m, ids \ {a}))

Total(stored) == SumOver(unwrap_or_default(stored), AppIds)

\* rows * cols when it is below 2^32
Capacity == checked_mul(rows, cols)

\* a storage value with length l added once under AppId a
AddedOnce(stored, a, l) == [unwrap_or_default(stored) EXCEPT ![a] = Plus(@, l)]

\* the length fits the block: the exact total with l added is within
\* rows * cols, all three below 2^32
FitsExactly(stored, l) ==
    /\ Lt(l, U32_LIMIT)
    /\ Capacity # None
    /\ Le(Plus(Total(stored), l), Capacity[1])

\* the calls of a root batch that are pushed after its last contained batch,
\* and so are popped before any contained batch is
AfterLastBatch(cs) ==
    SubSeq(cs, 1 + MaxOf({k \in 1 .. Len(cs) : IsBatch(cs[k])}), Len(cs))

\* no call popped before the second batch is rejected
SecondBatchPoppedFirst(c) ==
    \A k \in 1 .. Len(AfterLastBatch(c.calls)) :
        /\ AfterLastBatch(c.calls)[k].kind = "submit_data"
        /\ app_id < next_application_id

----------------------------------------------------------------------------
(* Properties of block accounting, under Spec.                             *)

\* C1: in every reachable state the committed total of padded scalars is at
\* most rows * cols (a product that overflows u32 is above every u32 total).
C1_CapacityInvariant ==
    Le(Total(AllExtrinsicsLen),
       IF Capacity = None THEN U32_MAX ELSE Capacity[1])

\* C1 witness: a call rejected for capacity after the block filled up exactly.
C1_Witness ==
    /\ outcome = "MaxPaddedLenExceeded"
    /\ Capacity # None
    /\ Total(AllExtrinsicsLen) = Capacity[1]
    /\ Lt(Zero, len) /\ Lt(len, U32_LIMIT)

\* C2: when do_validate returns any of the four rejections the committed
\* AllExtrinsicsLen is what it was before the call; it differs from before
\* only when both the AppId check and the accountant succeeded.
C2_RejectionKeepsState ==
    Ran =>
        /\ outcome \in Rejections \cup {"Ok"}
        /\ outcome \in Rejections => AllExtrinsicsLen = before
        /\ AllExtrinsicsLen # before => outcome = "Ok" /\ check.res = "Ok"

\* C2 witness: a call rejected by the AppId check that the accountant would
\* have admitted into a block that already holds data.
C2_Witness ==
    /\ outcome = "MaxRecursionExceeded"
    /\ Total(before) # Zero
    /\ Lt(Zero, len)
    /\ FitsExactly(before, len)

\* C9: the committed lengths are, AppId by AppId, the exact sums of the
\* lengths of the accepted calls; an accepted call adds its length under its
\* own AppId and nothing else; the total never decreases; a call that would
\* take the total over rows * cols is rejected and leaves the state alone.
C9_ExactAccounting ==
    /\ unwrap_or_default(AllExtrinsicsLen) = admitted
    /\ Total(AllExtrinsicsLen) = SumOver(admitted, AppIds)
    /\ Ran => Le(Total(before), Total(AllExtrinsicsLen))
    /\ (Ran /\ outcome = "Ok") =>
           unwrap_or_default(AllExtrinsicsLen) = AddedOnce(before, app_id, len)
    /\ (Ran /\ Capacity # None
            /\ ~Le(Plus(Total(before), len), Capacity[1])) =>
           outcome \in Rejections /\ AllExtrinsicsLen = before

\* C9 witness: after calls accepted under every AppId filled the block, a
\* further call is rejected for capacity.
C9_Witness ==
    /\ outcome = "MaxPaddedLenExceeded"
    /\ \A a \in AppIds : admitted[a] # Zero
    /\ Lt(len, U32_LIMIT)
    /\ check.res = "Ok"

\* C10 (as claimed): a transaction accepted by validate and then by
\* pre_dispatch against the same state has its length added exactly once.
C10_AddedOncePerTransaction ==
    (entry = "pre_dispatch" /\ admission # None /\ outcome = "Ok") =>
        unwrap_or_default(AllExtrinsicsLen) = AddedOnce(admission[1], app_id, len)

----------------------------------------------------------------------------
(* Properties of the AppId check, under SpecTx.                            *)

\* C3 (as claimed): an accepted non-zero AppId is registered and every leaf
\* of the call is submit_data.
C3_AcceptedIsRegistered ==
    (Ran /\ app_id # 0 /\ check.res = "Ok") =>
        AllLeaves(call, "submit_data") /\ app_id < next_application_id

\* C4 (as claimed): a non-zero AppId on a call with a leaf that is neither
\* submit_data nor a batch is rejected with ForbiddenAppId.
C4_OtherLeafForbidden ==
    (Ran /\ app_id # 0 /\ SomeLeaf(call, "remark")) =>
        outcome = "ForbiddenAppId"

\* C4 (amended): such a call is always rejected; the reason is ForbiddenAppId
\* unless the AppId is unregistered (then it may be InvalidAppId) or the root
\* batch contains a batch (then it may be MaxRecursionExceeded).
C4_OtherLeafRejected ==
    (Ran /\ app_id # 0 /\ SomeLeaf(call, "remark")) =>
        /\ outcome \in {"ForbiddenAppId", "InvalidAppId", "MaxRecursionExceeded"}
        /\ outcome = check.res
        /\ outcome = "InvalidAppId" => app_id >= next_application_id
        /\ outcome = "MaxRecursionExceeded" => Depth(call) >= 2

\* C4 witness: the mixed batch of the tests, rejected with ForbiddenAppId
\* under a registered AppId.
C4_Witness ==
    /\ Ran /\ app_id # 0 /\ app_id < next_application_id
    /\ call = Batch("batch", <<remark_call, submit_data_call, submit_data_call>>)
    /\ outcome = "ForbiddenAppId"

\* C5 (as claimed): an unregistered non-zero AppId on a call whose leaves are
\* all submit_data is rejected with InvalidAppId.
C5_UnregisteredInvalid ==
    (Ran /\ app_id # 0 /\ app_id >= next_application_id
         /\ AllLeaves(call, "submit_data")) =>
        outcome = "InvalidAppId"

\* C6 (as claimed): a registered non-zero AppId on a call whose leaves are all
\* submit_data and whose nesting is at most 2 passes the AppId check.
C6_NestedAccepted ==
    (Ran /\ app_id # 0 /\ app_id < next_application_id
         /\ AllLeaves(call, "submit_data") /\ Depth(call) <= 2) =>
        check.res = "Ok"

\* C6 (amended): with a registered non-zero AppId and only submit_data leaves
\* the check accepts exactly the calls of nesting at most 1 (submit_data, or
\* a batch of submit_data); a batch that contains a batch is rejected with
\* MaxRecursionExceeded.
C6_FlatAccepted ==
    (Ran /\ app_id # 0 /\ app_id < next_application_id
         /\ AllLeaves(call, "submit_data")) =>
        /\ Depth(call) <= 1 => check.res = "Ok"
        /\ Depth(call) >= 2 => check.res = "MaxRecursionExceeded"

\* C6 witness: the batch of three submit_data of the tests is accepted.
C6_Witness ==
    /\ Ran /\ app_id # 0
    /\ call = Batch("batch", <<submit_data_call, submit_data_call, submit_data_call>>)
    /\ check.res = "Ok"
    /\ check.iterations = 1

\* C7 (as claimed): a non-zero AppId on a call of nesting 2 or more is
\* rejected with MaxRecursionExceeded whatever its leaves and their order.
C7_DeepIsMaxRecursion ==
    (Ran /\ app_id # 0 /\ Depth(call) >= 2) =>
        check.res = "MaxRecursionExceeded"

\* C7 (amended): such a call is always rejected; the reason is
\* MaxRecursionExceeded exactly when every call listed after the root's last
\* contained batch is a submit_data under a registered AppId; otherwise it is
\* ForbiddenAppId under a registered AppId, and under an unregistered one
\* the reason of the root's last call (InvalidAppId for submit_data,
\* ForbiddenAppId for any other).
C7_DeepIsRejected ==
    (Ran /\ app_id # 0 /\ Depth(call) >= 2) =>
        /\ check.res \in {"MaxRecursionExceeded", "ForbiddenAppId", "InvalidAppId"}
        /\ check.res = "MaxRecursionExceeded" <=> SecondBatchPoppedFirst(call)
        /\ (~SecondBatchPoppedFirst(call) /\ app_id < next_application_id) =>
               check.res = "ForbiddenAppId"
        /\ (~SecondBatchPoppedFirst(call) /\ app_id >= next_application_id) =>
               check.res = (IF call.calls[Len(call.calls)].kind = "submit_data"
                            THEN "InvalidAppId" ELSE "ForbiddenAppId")

\* C7 witness: a remark nested below the second batch is never popped, and
\* the reason is MaxRecursionExceeded.
C7_Witness ==
    /\ Ran /\ app_id # 0
    /\ call = Batch("batch", <<submit_data_call, Batch("batch_all", <<remark_call>>)>>)
    /\ check.res = "MaxRecursionExceeded"
    /\ check.iterations = MAX_ITERATIONS

\* C8 (as claimed): with AppId 0 the check accepts without traversing the
\* call or reading the counter, and do_validate accepts.
C8_ZeroAlwaysAccepted ==
    (Ran /\ app_id = 0) =>
        /\ check = Verdict("Ok", None, 0, 0)
        /\ outcome = "Ok"

\* C8 (amended): with AppId 0 the check accepts without traversing the call
\* or reading the counter; do_validate accepts exactly when the length fits
\* the block, and otherwise rejects with MaxPaddedLenExceeded.
C8_ZeroPassesCheck ==
    (Ran /\ app_id = 0) =>
        /\ check = Verdict("Ok", None, 0, 0)
        /\ outcome = (IF FitsExactly(before, len) THEN "Ok"
                      ELSE "MaxPaddedLenExceeded")

\* C8 witness: AppId 0 on a call nested beyond the bound, with a remark in
\* it, is accepted.
C8_Witness ==
    /\ Ran /\ app_id = 0
    /\ Depth(call) > MAX_ITERATIONS
    /\ SomeLeaf(call, "remark")
    /\ outcome = "Ok"
    /\ AllExtrinsicsLen = Some(AddedOnce(None, 0, len))
    /\ Lt(Zero, len)

----------------------------------------------------------------------------
(* Two invocations of do_validate against the same storage, each run as    *)
(* the two storage operations of the code: the read of AllExtrinsicsLen    *)
(* inside next_all_extrinsics_len, and the put that follows it.  Nothing   *)
(* in do_validate holds the storage between the two.                       *)

Invocations == {1, 2}

Idle ==
    [pc |-> "idle", call |-> remark_call, app_id |-> 0, len |-> Zero,
     res |-> "none", put |-> None]

\* self.ensure_valid_app_id(call)?; self.next_all_extrinsics_len(len)
\* .ok_or(PADDED_LEN_EXCEEDED)?  -- returns early on either failure, else
\* holds the new snapshot
get_snapshot(p) ==
    /\ inflight[p].pc = "idle"
    /\ \E c \in BlockCalls, a \in AppIds, l \in Lens :
           LET r == do_validate(a, c, l)
           IN  /\ inflight' = [inflight EXCEPT ![p] =
                      [pc |-> IF r.put = None THEN "done" ELSE "got",
                       call |-> c, app_id |-> a, len |-> l,
                       res |-> r.res, put |-> r.put]]
               /\ raced' = (raced \/ (r.accounted /\ \E q \in Invocations \ {p} :
                                          inflight[q].pc = "got"))
    /\ UNCHANGED <<AllExtrinsicsLen, rows, cols, next_application_id, call,
                   app_id, len, entry, outcome, check, before, admitted,
                   admission, accounted, loop>>

\* AllExtrinsicsLen::<T>::put(all_extrinsics_len); Ok(ValidTransaction::default())
put_snapshot(p) ==
    /\ inflight[p].pc = "got"
    /\ AllExtrinsicsLen' = inflight[p].put
    /\ inflight' = [inflight EXCEPT ![p].pc = "done"]
    /\ UNCHANGED <<rows, cols, next_application_id, call, app_id, len, entry,
                   outcome, check, before, admitted, admission, accounted,
                   loop, raced>>

InitConc ==
    /\ AllExtrinsicsLen = None
    /\ \E d \in BlockLengths : rows = d[1] /\ cols = d[2]
    /\ next_application_id \in 1 .. MaxNextAppId
    /\ call = remark_call
    /\ app_id = 0
    /\ len = Zero
    /\ entry = "none"
    /\ outcome = "none"
    /\ check = NoCheck
    /\ before = None
    /\ admitted = [a \in AppIds |-> Zero]
    /\ admission = None
    /\ accounted = FALSE
    /\ loop = NoLoop
    /\ inflight = [p \in Invocations |-> Idle]
    /\ raced = FALSE

NextConc == \E p \in Invocations : get_snapshot(p) \/ put_snapshot(p)

SpecConc == InitConc /\ [][NextConc]_vars

AllReturned == \A p \in Invocations : inflight[p].pc = "done"

\* per AppId, the exact sum of the lengths of the invocations that returned Ok
RECURSIVE AcceptedBy(_)
AcceptedBy(ps) ==
    IF ps = {} THEN default_len
    ELSE LET p == CHOOSE x \in ps : TRUE
             m == AcceptedBy(ps \ {p})
         IN  IF inflight[p].res = "Ok"
             THEN [m EXCEPT ![inflight[p].app_id] = Plus(@, inflight[p].len)]
             ELSE m

\* C11 (as claimed): whatever the interleaving of the two invocations, once
\* both have returned the committed state records the lengths of both
\* accepted transactions and the total is at most rows * cols.
C11_NoLostUpdate ==
    AllReturned =>
        /\ unwrap_or_default(AllExtrinsicsLen) = AcceptedBy(Invocations)
        /\ Le(Total(AllExtrinsicsLen),
              IF Capacity = None THEN U32_MAX ELSE Capacity[1])

\* C11 (amended): the committed total is at most rows * cols in every
\* interleaving; the committed state records the lengths of both accepted
\* transactions when no invocation read the storage between the other's read
\* and put, that is when the caller serializes them.
C11_SerializedKeepsBoth ==
    /\ Le(Total(AllExtrinsicsLen),
          IF Capacity = None THEN U32_MAX ELSE Capacity[1])
    /\ (AllReturned /\ ~raced) =>
           unwrap_or_default(AllExtrinsicsLen) = AcceptedBy(Invocations)

\* C11 witness: two serialized invocations, both accepted with a length,
\* under different AppIds.
C11_Witness ==
    /\ AllReturned /\ ~raced
    /\ \A p \in Invocations : inflight[p].res = "Ok" /\ Lt(Zero, inflight[p].len)
    /\ inflight[1].app_id # inflight[2].app_id

----------------------------------------------------------------------------
(* Order of the two stages of do_validate, under Spec.                     *)

\* C12: do_validate runs the AppId check before the accountant and reports
\* the first failing reason: when the AppId check fails the reason is the
\* check's own, never MaxPaddedLenExceeded, whether or not the length would
\* fit, and the accountant's read and commit are not reached; the accountant
\* runs exactly when the check passed.
C12_CheckBeforeAccountant ==
    Ran =>
        /\ accounted <=> check.res = "Ok"
        /\ check.res # "Ok" =>
               /\ outcome = check.res
               /\ outcome \in Rejections \ {"MaxPaddedLenExceeded"}
               /\ AllExtrinsicsLen = before

\* C12 witness: a transaction that fails the AppId check and whose length
\* the accountant would refuse as well.
C12_Witness ==
    /\ Ran
    /\ check.res # "Ok"
    /\ ~FitsExactly(before, len)
    /\ outcome = check.res

----------------------------------------------------------------------------
(* One do_validate against an accounting snapshot left by earlier accepted *)
(* transactions, with lengths and totals near the u32 limit and a grid of  *)
(* the largest capacity a u32 holds.                                       *)

NearMax == {<<Base - 1, Base - 1 - k>> : k \in 0 .. MaxLen}

AcctVals == {Num(n) : n \in 0 .. MaxLen} \cup NearMax

AcctLens == Lens \cup NearMax

\* 65535 * 65537 = 2^32 - 1
AcctBlockLengths == BlockLengths \cup {<<Num(Base - 1), Num(Base + 1)>>}

\* what AllExtrinsicsLen can hold under the grid rows x cols: nothing yet, or
\* lengths whose total passed `total_scalars <= max_scalars`
Snapshots ==
    {None} \cup
    {Some(m) : m \in {x \in [AppIds -> AcctVals] :
                         /\ Capacity # None
                         /\ Le(SumOver(x, AppIds), Capacity[1])}}

InitAcct ==
    /\ \E d \in AcctBlockLengths : rows = d[1] /\ cols = d[2]
    /\ AllExtrinsicsLen \in Snapshots
    /\ next_application_id \in 1 .. MaxNextAppId
    /\ call \in BlockCalls
    /\ app_id \in AppIds
    /\ len \in AcctLens
    /\ entry = "none"
    /\ outcome = "none"
    /\ check = NoCheck
    /\ before = None
    /\ admitted = unwrap_or_default(AllExtrinsicsLen)
    /\ admission = None
    /\ accounted = FALSE
    /\ loop = NoLoop
    /\ inflight = NoneInFlight
    /\ raced = FALSE

NextAcct == validate_drawn

SpecAcct == InitAcct /\ [][NextAcct]_vars

\* the boundary as the claim words it, in exact arithmetic
FitsAll(stored, a, l) ==
    /\ Lt(l, U32_LIMIT)
    /\ Capacity # None
    /\ Le(Plus(unwrap_or_default(stored)[a], l), U32_MAX)
    /\ Le(Plus(Total(stored), l), U32_MAX)
    /\ Le(Plus(Total(stored), l), Capacity[1])

\* C13: once the AppId check has passed, the accountant returns the new
\* snapshot (the stored one with len added under the AppId), which is then
\* committed, exactly when len fits u32, rows * cols does not overflow u32,
\* the per-application sum and the grand total do not overflow u32 and the
\* grand total is at most rows * cols, a total equal to it being accepted;
\* in every other case do_validate rejects with MaxPaddedLenExceeded and the
\* storage is unchanged.
C13_DecisionBoundary ==
    (Ran /\ accounted) =>
        /\ outcome = "Ok" <=> FitsAll(before, app_id, len)
        /\ outcome = "Ok" =>
               AllExtrinsicsLen = Some(AddedOnce(before, app_id, len))
        /\ outcome # "Ok" =>
               outcome = "MaxPaddedLenExceeded" /\ AllExtrinsicsLen = before

\* C13 witness: on top of a stored snapshot, a length that brings the total
\* to exactly rows * cols = u32::MAX is accepted.
C13_Witness ==
    /\ Ran /\ accounted /\ outcome = "Ok"
    /\ before # None /\ Lt(Zero, len)
    /\ Capacity = Some(U32_MAX)
    /\ Total(AllExtrinsicsLen) = U32_MAX

----------------------------------------------------------------------------
(* ensure_valid_app_id one loop iteration at a time.  `loop` holds the     *)
(* locals stack, maybe_next_app_id and iterations, the result once the     *)
(* function has returned, and counts of what the loop has done so far:     *)
(* pops, fetches of the next-AppId counter, submit_data calls popped       *)
(* (leaves), batches popped, batches whose calls were pushed (unwrapped)   *)
(* and the values of iterations at which calls were pushed.                *)

LoopUnchanged ==
    UNCHANGED <<AllExtrinsicsLen, rows, cols, next_application_id, call,
                app_id, len, entry, outcome, check, before, admitted,
                admission, accounted, inflight, raced>>

Top == loop.stack[Len(loop.stack)]

Popped == SubSeq(loop.stack, 1, Len(loop.stack) - 1)

\* if self.app_id() == AppId(0) { return Ok(()) }
return_for_zero ==
    /\ loop.pc = "none"
    /\ app_id = 0
    /\ loop' = [loop EXCEPT !.pc = "done", !.res = "Ok"]
    /\ LoopUnchanged

\* stack.push(call); maybe_next_app_id = None; iterations = 0
push_root ==
    /\ loop.pc = "none"
    /\ app_id # 0
    /\ loop' = [loop EXCEPT !.pc = "loop", !.stack = <<call>>]
    /\ LoopUnchanged

\* a submit_data popped: the lazy fetch, then ensure!(app_id < next_app_id)
pop_submit_data ==
    /\ loop.pc = "loop"
    /\ loop.stack # <<>>
    /\ is_submit_data(Top)
    /\ LET next == get_or_insert_with(loop.maybe_next_app_id)
           ok   == is_registered(app_id, next[1])
       IN  loop' = [loop EXCEPT
                      !.stack = Popped,
                      !.pops = @ + 1,
                      !.leaves = @ + 1,
                      !.fetches = IF needs_fetch(loop.maybe_next_app_id)
                                  THEN @ + 1 ELSE @,
                      !.maybe_next_app_id = next,
                      !.pc = IF ok THEN "loop" ELSE "done",
                      !.res = IF ok THEN "none" ELSE "InvalidAppId"]
    /\ LoopUnchanged

\* a batch popped: iterations += 1; ensure!(iterations < MAX_ITERATIONS);
\* then its calls are pushed
pop_batch ==
    /\ loop.pc = "loop"
    /\ loop.stack # <<>>
    /\ ~is_submit_data(Top)
    /\ is_utility_batch(Top)
    /\ LET ok == may_unwrap(loop.iterations + 1)
       IN  loop' = [loop EXCEPT
                      !.stack = IF ok THEN Popped \o Top.calls ELSE Popped,
                      !.pops = @ + 1,
                      !.batches = @ + 1,
                      !.iterations = @ + 1,
                      !.unwrapped = IF ok THEN @ + 1 ELSE @,
                      !.pushed_at = IF ok THEN @ \cup {loop.iterations + 1}
                                    ELSE @,
                      !.pc = IF ok THEN "loop" ELSE "done",
                      !.res = IF ok THEN "none" ELSE "MaxRecursionExceeded"]
    /\ LoopUnchanged

\* any other call popped: Err(ForbiddenAppId)
pop_other ==
    /\ loop.pc = "loop"
    /\ loop.stack # <<>>
    /\ ~is_submit_data(Top)
    /\ ~is_utility_batch(Top)
    /\ loop' = [loop EXCEPT !.stack = Popped, !.pops = @ + 1,
                            !.pc = "done", !.res = "ForbiddenAppId"]
    /\ LoopUnchanged

\* stack.pop() is None: the loop ends and the function returns Ok(())
return_ok ==
    /\ loop.pc = "loop"
    /\ loop.stack = <<>>
    /\ loop' = [loop EXCEPT !.pc = "done", !.res = "Ok"]
    /\ LoopUnchanged

InitLoop ==
    /\ AllExtrinsicsLen = None
    /\ rows = Num(1) /\ cols = Num(1)
    /\ next_application_id \in 1 .. MaxNextAppId
    /\ call \in Calls
    /\ app_id \in AppIds
    /\ len = Zero
    /\ entry = "none"
    /\ outcome = "none"
    /\ check = NoCheck
    /\ before = None
    /\ admitted = [a \in AppIds |-> Zero]
    /\ admission = None
    /\ accounted = FALSE
    /\ loop = NoLoop
    /\ inflight = NoneInFlight
    /\ raced = FALSE

NextLoop ==
    \/ return_for_zero
    \/ push_root
    \/ pop_submit_data
    \/ pop_batch
    \/ pop_other
    \/ return_ok

SpecLoop == InitLoop /\ [][NextLoop]_vars

Returned == loop.pc = "done"

\* the loop, run to its end, is the function ensure_valid_app_id
LoopIsFunction ==
    Returned =>
        Verdict(loop.res, loop.maybe_next_app_id, loop.iterations, loop.pops)
            = ensure_valid_app_id(app_id, call)

----------------------------------------------------------------------------
(* Properties of the traversal, under SpecLoop.                            *)

\* C14: the unwrap counter never exceeds 2; the calls of a batch are pushed
\* only when the counter is 1 after its increment, so at most one batch is
\* ever unwrapped; and the second batch popped, nested or sibling, empty or
\* not, ends the traversal with MaxRecursionExceeded.
C14_OneUnwrap ==
    /\ loop.iterations <= MAX_ITERATIONS
    /\ loop.iterations = loop.batches
    /\ loop.pushed_at \subseteq {1}
    /\ loop.unwrapped <= 1
    /\ loop.batches >= 2 =>
           /\ Returned
           /\ loop.res = "MaxRecursionExceeded"
           /\ loop.batches = 2

\* C14 witness: a root batch unwrapped, then an empty sibling batch popped
\* after a submit_data and rejected.
C14_Witness ==
    /\ Returned
    /\ IsBatch(call) /\ Len(call.calls) = 2
    /\ IsBatch(call.calls[1]) /\ call.calls[1].calls = <<>>
    /\ is_submit_data(call.calls[2])
    /\ loop.unwrapped = 1 /\ loop.leaves = 1 /\ loop.batches = 2
    /\ loop.res = "MaxRecursionExceeded"

----------------------------------------------------------------------------
(* Properties of the AppId check on one transaction, under SpecTx.         *)

Reordered(cs, f) == [i \in 1 .. Len(cs) |-> cs[f[i]]]

\* every call obtained from c by reordering the calls inside its batches
RECURSIVE Permuted(_)
Permuted(c) ==
    IF ~IsBatch(c) THEN {c}
    ELSE LET n     == Len(c.calls)
             each  == [i \in 1 .. n |-> Permuted(c.calls[i])]
             inner == {s \in [1 .. n -> UNION {each[i] : i \in 1 .. n}] :
                          \A i \in 1 .. n : s[i] \in each[i]}
         IN  {Batch(c.kind, Reordered(s, f)) :
                  s \in inner, f \in Permutations(1 .. n)}

\* the same checks with the work list served first-in first-out: the head
\* is taken and the calls of a batch are appended at the end
RECURSIVE fifo(_, _, _)
fifo(a, queue, iterations) ==
    IF queue = <<>> THEN "Ok"
    ELSE LET c == Head(queue)
         IN  IF c.kind = "submit_data"
             THEN IF a < next_application_id
                  THEN fifo(a, Tail(queue), iterations)
                  ELSE "InvalidAppId"
             ELSE IF c.kind \in BatchKinds
             THEN IF iterations + 1 < MAX_ITERATIONS
                  THEN fifo(a, Tail(queue) \o c.calls, iterations + 1)
                  ELSE "MaxRecursionExceeded"
             ELSE "ForbiddenAppId"

Accepts(a, c) == ensure_valid_app_id(a, c).res = "Ok"

\* one do_validate on an arbitrary call tree, with a length of 0 in a grid
\* of one scalar: the outcome is that of the AppId check
InitOrder ==
    /\ AllExtrinsicsLen = None
    /\ rows = Num(1) /\ cols = Num(1)
    /\ next_application_id \in 1 .. MaxNextAppId
    /\ call \in Calls
    /\ app_id \in AppIds
    /\ len = Zero
    /\ entry = "none"
    /\ outcome = "none"
    /\ check = NoCheck
    /\ before = None
    /\ admitted = [a \in AppIds |-> Zero]
    /\ admission = None
    /\ accounted = FALSE
    /\ loop = NoLoop
    /\ inflight = NoneInFlight
    /\ raced = FALSE

NextOrder == validate_drawn

SpecOrder == InitOrder /\ [][NextOrder]_vars


\* C16: reordering the calls inside any batch of the call tree never changes
\* whether the AppId check accepts or rejects, and neither does serving the
\* work list first-in first-out instead of last-in first-out.
C16_OrderIrrelevant ==
    Ran =>
        /\ outcome = check.res
        /\ \A c \in Permuted(call) : Accepts(app_id, c) <=> outcome = "Ok"
        /\ (app_id = 0 \/ fifo(app_id, <<call>>, 0) = "Ok") <=> outcome = "Ok"

\* C16 witness: a root batch of a submit_data and another call is rejected
\* in both orders, for ForbiddenAppId in one and InvalidAppId in the other.
C16_Witness ==
    /\ Ran /\ app_id # 0
    /\ call = Batch("batch", <<remark_call, submit_data_call>>)
    /\ check.res = "InvalidAppId"
    /\ ensure_valid_app_id(app_id,
           Batch("batch", <<submit_data_call, remark_call>>)).res
         = "ForbiddenAppId"

----------------------------------------------------------------------------
(* Properties of the lazy fetch and of termination, under SpecLoop.        *)

\* the same checks with the next-AppId counter read again at every
\* submit_data
RECURSIVE refetching(_, _, _)
refetching(a, stack, iterations) ==
    IF stack = <<>> THEN "Ok"
    ELSE LET c    == stack[Len(stack)]
             rest == SubSeq(stack, 1, Len(stack) - 1)
         IN  IF c.kind = "submit_data"
             THEN IF a < next_application_id
                  THEN refetching(a, rest, iterations)
                  ELSE "InvalidAppId"
             ELSE IF c.kind \in BatchKinds
             THEN IF iterations + 1 < MAX_ITERATIONS
                  THEN refetching(a, rest \o c.calls, iterations + 1)
                  ELSE "MaxRecursionExceeded"
             ELSE "ForbiddenAppId"

\* C17: the next-AppId counter is read at most once per validation, and not
\* at all when the AppId is 0 or no submit_data has been popped; once read
\* the cached value is the counter's; and the result is that of a validator
\* that reads the counter at every submit_data.
C17_LazyFetch ==
    /\ loop.fetches <= 1
    /\ (app_id = 0 \/ loop.leaves = 0) => loop.fetches = 0
    /\ loop.leaves > 0 => loop.fetches = 1
    /\ loop.fetches = 0 <=> loop.maybe_next_app_id = None
    /\ loop.fetches = 1 => loop.maybe_next_app_id = Some(next_application_id)
    /\ Returned =>
           loop.res = IF app_id = 0 THEN "Ok"
                      ELSE refetching(app_id, <<call>>, 0)

\* C17 witness: a batch of three submit_data accepted with one read of the
\* counter.
C17_Witness ==
    /\ Returned /\ loop.res = "Ok"
    /\ loop.leaves = 3
    /\ loop.fetches = 1


\* the loop body has no suspension point: a step that can be taken is taken
SpecLoopFair == SpecLoop /\ WF_vars(NextLoop)

\* the calls directly contained in the root batch
RootCalls == IF IsBatch(call) THEN Len(call.calls) ELSE 0

\* C18: validation always completes, and the number of calls popped never
\* exceeds 1 + the number of calls directly contained in the root batch.
C18_CompletesWithinBound ==
    /\ [](loop.pops <= 1 + RootCalls)
    /\ <>Returned

\* C18 witness: a root batch of three submit_data, every call popped: four
\* pops, and the check has returned.
C18_Witness ==
    /\ Returned
    /\ RootCalls = 3
    /\ loop.pops = 1 + RootCalls

====
